---- MODULE Spec2Model ----
(***************************************************************************)
(* Model of package dtb (bytes_to_data.go): ConvertBytesToData and the     *)
(* recursive, reflection driven decoder updateValueByTypeFromBytes.        *)
(*                                                                         *)
(* Integers are kept as "words": sequences of bytes, least significant     *)
(* byte first, of the width of their Go type.  Go's conversions between    *)
(* integer types are truncation, sign extension and zero extension of      *)
(* words, so 32 and 64 bit values keep their exact width.                  *)
(*                                                                         *)
(* A Go slice is [arr, len]: arr holds the backing array from the slice's  *)
(* first element up to its capacity, len is len(slice).                    *)
(***************************************************************************)
EXTENDS Integers, Sequences, FiniteSets, TLC

VARIABLES inBytes, inEndian, inData, pc, ret

vars == <<inBytes, inEndian, inData, pc, ret>>

(***************************************************************************)
(* Kinds (reflect.Kind) and their widths in bytes.                         *)
(***************************************************************************)
IntKinds == {"Int8", "Int16", "Int32", "Int64"}

UintKinds == {"Uint8", "Uint16", "Uint32", "Uint64"}

FloatKinds == {"Float32", "Float64"}

ScalarKinds == IntKinds \cup UintKinds \cup FloatKinds

Width(kind) ==
    CASE kind \in {"Int8", "Uint8"} -> 1
      [] kind \in {"Int16", "Uint16"} -> 2
      [] kind \in {"Int32", "Uint32", "Float32"} -> 4
      [] kind \in {"Int64", "Uint64", "Float64"} -> 8

(***************************************************************************)
(* Go slice expressions and their run-time checks.                         *)
(***************************************************************************)
Cap(b) == Len(b.arr)

\* b[i] is legal iff 0 <= i < len(b)
IndexOk(b, i) == 0 <= i /\ i < b.len

\* b[lo:hi] is legal iff 0 <= lo <= hi <= cap(b)
SliceOk(b, lo, hi) == 0 <= lo /\ lo <= hi /\ hi <= Cap(b)

Slice(b, lo, hi) == [arr |-> SubSeq(b.arr, lo + 1, Cap(b)), len |-> hi - lo]

\* b[lo:] is b[lo:len(b)]
SliceFromOk(b, lo) == SliceOk(b, lo, b.len)

SliceFrom(b, lo) == Slice(b, lo, b.len)

(***************************************************************************)
(* encoding/binary: ByteOrder.Uint16/Uint32/Uint64 of the first n bytes,   *)
(* as a word (least significant byte first).                               *)
(***************************************************************************)
EndianUint(order, b, n) ==
    IF order = "LittleEndian"
    THEN [i \in 1..n |-> b.arr[i]]
    ELSE [i \in 1..n |-> b.arr[n + 1 - i]]

(***************************************************************************)
(* Go integer conversions on words.                                        *)
(***************************************************************************)
Trunc(w, n) == SubSeq(w, 1, n)

SignExtend(w, n) ==
    [i \in 1..n |-> IF i <= Len(w) THEN w[i]
                    ELSE IF w[Len(w)] >= 128 THEN 255 ELSE 0]

ZeroExtend(w, n) == [i \in 1..n |-> IF i <= Len(w) THEN w[i] ELSE 0]

\* T(x) for a signed x: truncate or sign-extend to n bytes
FromSigned(w, n) == IF n <= Len(w) THEN Trunc(w, n) ELSE SignExtend(w, n)

\* T(x) for an unsigned x: truncate or zero-extend to n bytes
FromUnsigned(w, n) == IF n <= Len(w) THEN Trunc(w, n) ELSE ZeroExtend(w, n)

\* reflect.Value.SetInt / SetUint / SetFloat store x converted to the kind
SetInt(kind, x) == FromSigned(x, Width(kind))

SetUint(kind, x) == FromUnsigned(x, Width(kind))

(***************************************************************************)
(* Type descriptors (reflect.Type).  One record shape for every kind:      *)
(*   fields  the struct's fields in declaration order,                     *)
(*   elem    <<element type>> of an array or slice,                        *)
(*   len     value.Len() of the array or slice,                            *)
(*   dyn     <<concrete type>> held by an interface value, <<>> when nil.  *)
(* Text (tags, method names) is a sequence of one-character strings.       *)
(***************************************************************************)
Ty(kind) == [kind |-> kind, fields |-> <<>>, elem |-> <<>>, len |-> 0, dyn |-> <<>>]

StructOf(fields) == [Ty("Struct") EXCEPT !.fields = fields]

ArrayOf(elem, n) == [Ty("Array") EXCEPT !.elem = <<elem>>, !.len = n]

SliceOf(elem, n) == [Ty("Slice") EXCEPT !.elem = <<elem>>, !.len = n]

InterfaceOf(dyn) == [Ty("Interface") EXCEPT !.dyn = dyn]

\* reflect.StructField: Name, whether it is exported, its three tags, Type
StructField(name, exported, ignore, fn, length, type) ==
    [name |-> name, exported |-> exported, bytes_ignore |-> ignore,
     bytes_fn |-> fn, bytes_length |-> length, type |-> type]

(***************************************************************************)
(* reflect.Value: v is the stored value (a word for a number, a sequence   *)
(* of bytes for a string, a sequence of values for a struct, array or      *)
(* slice, the held value for an interface), valid is IsValid(), addr is    *)
(* CanAddr(), ro is set for values reached through unexported fields,      *)
(* path locates the value inside the destination.                          *)
(***************************************************************************)
Value(v, addr, path) == [v |-> v, valid |-> TRUE, addr |-> addr, ro |-> FALSE, path |-> path]

ZeroValue == [v |-> <<>>, valid |-> FALSE, addr |-> FALSE, ro |-> FALSE, path |-> <<>>]

CanSet(value) == value.valid /\ value.addr /\ ~value.ro

CanInterface(value) == value.valid /\ ~value.ro

\* value.Field(i) with i counted from 1
FieldOf(value, Type, i) ==
    [v |-> value.v[i], valid |-> TRUE, addr |-> value.addr,
     ro |-> value.ro \/ ~Type.fields[i].exported, path |-> Append(value.path, i)]

\* value.Index(i) with i counted from 1: slice elements are always addressable
IndexOf(value, Type, i) ==
    [v |-> value.v[i], valid |-> TRUE,
     addr |-> IF Type.kind = "Slice" THEN TRUE ELSE value.addr,
     ro |-> value.ro, path |-> Append(value.path, i)]

\* value.Elem() of an interface value: the zero Value when the interface is nil,
\* else the held value, which is not addressable (the slot is not re-assigned)
ElemOf(value, Type) ==
    IF Type.dyn = <<>> THEN ZeroValue
    ELSE [v |-> value.v, valid |-> TRUE, addr |-> FALSE, ro |-> value.ro, path |-> value.path]

(***************************************************************************)
(* strconv and strings.                                                    *)
(***************************************************************************)
TrueTexts ==
    { <<"1">>, <<"t">>, <<"T">>, <<"T","R","U","E">>, <<"t","r","u","e">>, <<"T","r","u","e">> }

FalseTexts ==
    { <<"0">>, <<"f">>, <<"F">>, <<"F","A","L","S","E">>, <<"f","a","l","s","e">>,
      <<"F","a","l","s","e">> }

\* strconv.ParseBool
ParseBool(s) ==
    [ok |-> s \in TrueTexts \cup FalseTexts, val |-> s \in TrueTexts]

DigitOf(c) ==
    CASE c = "0" -> 0 [] c = "1" -> 1 [] c = "2" -> 2 [] c = "3" -> 3 [] c = "4" -> 4
      [] c = "5" -> 5 [] c = "6" -> 6 [] c = "7" -> 7 [] c = "8" -> 8 [] c = "9" -> 9
      [] OTHER -> -1

RECURSIVE ParseUintDigits(_, _)
ParseUintDigits(s, acc) ==
    IF s = <<>> THEN acc ELSE ParseUintDigits(Tail(s), acc * 10 + DigitOf(Head(s)))

\* strconv.ParseInt(s, 10, 32): optional sign, then at least one decimal digit
ParseInt(s) ==
    LET signed == s # <<>> /\ Head(s) \in {"+", "-"}
        digits == IF signed THEN Tail(s) ELSE s
        ok     == digits # <<>> /\ \A i \in 1..Len(digits) : DigitOf(digits[i]) >= 0
        n      == IF ok THEN ParseUintDigits(digits, 0) ELSE 0
    IN  [ok |-> ok, val |-> IF signed /\ Head(s) = "-" THEN 0 - n ELSE n]

RECURSIVE SplitFrom(_, _, _)
SplitFrom(s, sep, cur) ==
    IF s = <<>> THEN <<cur>>
    ELSE IF Head(s) = sep THEN <<cur>> \o SplitFrom(Tail(s), sep, <<>>)
    ELSE SplitFrom(Tail(s), sep, Append(cur, Head(s)))

\* strings.Split(s, sep) for a one-character separator
Split(s, sep) == SplitFrom(s, sep, <<>>)

(***************************************************************************)
(* Results and the event trace of one call.  A call ends by returning      *)
(* (offset, err) or by a run-time panic; value is the destination as the   *)
(* call left it (writes are in place, so they survive an error or a        *)
(* panic); readTo is the number of leading bytes of the call's slice that  *)
(* were read; trace lists, in program order, the writes ("set"), the       *)
(* codec invocations ("call"), the cursor updates after a field or an      *)
(* element ("adv") and after an interface's held value ("elem"), each with *)
(* the offset before (from) and after (to) and len(bytes) of the slice the *)
(* offset counts in, and the error created ("err").                        *)
(***************************************************************************)
Ev(op, path, val, from, to, len) ==
    [op |-> op, path |-> path, val |-> val, from |-> from, to |-> to, len |-> len]

SetEv(path, val) == Ev("set", path, val, 0, 0, 0)

CallEv(path, name) == Ev("call", path, name, 0, 0, 0)

AdvEv(path, from, to, len) == Ev("adv", path, <<>>, from, to, len)

ElemEv(path, from, to, len) == Ev("elem", path, <<>>, from, to, len)

ErrEv(path, err) == Ev("err", path, err, 0, 0, 0)

NoErr == "nil"

NoPanic == "none"

Result(v, offset, err, panic, trace, readTo) ==
    [value |-> v, offset |-> offset, err |-> err, panic |-> panic,
     trace |-> trace, readTo |-> readTo]

Max(a, b) == IF a >= b THEN a ELSE b

\* the call ends by a panic
Panicked(value, p, trace, readTo) == Result(value.v, 0, NoErr, p, trace, readTo)

\* return 0, err with an error made here
Failed(value, e, trace, readTo) ==
    Result(value.v, 0, e, NoPanic, trace \o <<ErrEv(value.path, e)>>, readTo)

\* value.Set...(x); offset = n
Stored(value, x, offset) ==
    Result(x, offset, NoErr, NoPanic, <<SetEv(value.path, x)>>, offset)

\* err != nil, the test after each call that returns an error
failedNever(err) == FALSE

failed(err) == err # NoErr

(***************************************************************************)
(* The methods of the destination's struct types, as ptrType.MethodByName  *)
(* finds them.  recv is the receiver the method is declared with; in/out   *)
(* are its parameter types after the receiver and its result types; when   *)
(* called it returns (n, nil), or (len(data) + n, nil) when plusLen is     *)
(* set, or (n, an error) when fails is set.                                *)
(***************************************************************************)
Method(name, recv, in, out, n, plusLen, fails) ==
    [name |-> name, recv |-> recv, in |-> in, out |-> out, n |-> n,
     plusLen |-> plusLen, fails |-> fails]

BytesIntErr(name, recv, n, plusLen, fails) ==
    Method(name, recv, <<"[]byte">>, <<"int", "error">>, n, plusLen, fails)

BadSignature(name, in, out) == Method(name, "ptr", in, out, 0, FALSE, FALSE)

Methods ==
    { BytesIntErr(<<"D">>, "ptr", 1, FALSE, FALSE),
      BytesIntErr(<<"Z">>, "ptr", 0, FALSE, FALSE),
      BytesIntErr(<<"N">>, "ptr", -1, FALSE, FALSE),
      BytesIntErr(<<"L">>, "ptr", 1, TRUE, FALSE),
      BytesIntErr(<<"E">>, "ptr", 1, FALSE, TRUE),
      BytesIntErr(<<"V">>, "value", 1, FALSE, FALSE),
      BadSignature(<<"A">>, <<>>, <<"int", "error">>),
      BadSignature(<<"S">>, <<"string">>, <<"int", "error">>),
      BadSignature(<<"O">>, <<"[]byte">>, <<"int">>),
      BadSignature(<<"I">>, <<"[]byte">>, <<"string", "error">>),
      BadSignature(<<"R">>, <<"[]byte">>, <<"int", "string">>) }

MethodNames == { m.name : m \in Methods }

\* ptrType.MethodByName(name): the method set of *T holds the methods declared
\* with either receiver, and the receiver parameter of each, In(0), is *T
HasMethod(name) == name \in MethodNames

MethodByName(name) ==
    LET m == CHOOSE x \in Methods : x.name = name
    IN  [m EXCEPT !.in = <<"Ptr">> \o m.in]

\* method.Call([]reflect.Value{reflect.ValueOf(data)})
Call(method, arg) ==
    [n |-> IF method.plusLen THEN arg.len + method.n ELSE method.n, fails |-> method.fails]

(* decodeValueViaFunc, lines 145-173.  panic(123) stands before the printed
   warning, so a receiver that is no pointer would end the call by a panic. *)
decodeValueViaFunc(structName, value, method, methodType, dataArg) ==
    IF Len(methodType.in) # 2
    THEN Failed(value, "InvalidCodecSignature", <<>>, 0)
    ELSE IF methodType.in[1] # "Ptr"
    THEN Result(value.v, 0, NoErr, "panic(123)", <<>>, 0)
    ELSE IF methodType.in[2] # "[]byte"
    THEN Failed(value, "InvalidCodecSignature", <<>>, 0)
    ELSE IF Len(methodType.out) # 2
    THEN Failed(value, "InvalidCodecSignature", <<>>, 0)
    ELSE IF methodType.out[1] # "int"
    THEN Failed(value, "InvalidCodecSignature", <<>>, 0)
    ELSE IF methodType.out[2] # "error"
    THEN Failed(value, "InvalidCodecSignature", <<>>, 0)
    ELSE LET values == Call(method, dataArg)
             called == CallEv(value.path, methodType.name)
         IN  IF values.fails
             THEN Failed(value, "CodecFailure", <<called>>, 0)
             ELSE Result(value.v, values.n, NoErr, NoPanic, <<called>>, 0)

(***************************************************************************)
(* Helpers of the package that the decoder calls.                          *)
(***************************************************************************)
\* bytesToStr: the bytes as text, trailing NUL padding trimmed
RECURSIVE bytesToStr(_)
bytesToStr(b) ==
    IF b = <<>> \/ b[Len(b)] # 0 THEN b ELSE bytesToStr(SubSeq(b, 1, Len(b) - 1))

\* typeSize: the static size of a type on the wire
RECURSIVE typeSize(_)
RECURSIVE SumSizes(_, _)
SumSizes(fields, i) ==
    IF i > Len(fields) THEN 0 ELSE typeSize(fields[i].type) + SumSizes(fields, i + 1)

typeSize(Type) ==
    CASE Type.kind \in ScalarKinds -> Width(Type.kind)
      [] Type.kind = "Array" -> Type.len * typeSize(Type.elem[1])
      [] Type.kind = "Struct" -> SumSizes(Type.fields, 1)
      [] OTHER -> 0

\* math.Float32frombits / Float64frombits, float64(float) and SetFloat: the float
\* is kept as the word of its IEEE-754 bits, which these conversions preserve
Floatfrombits(val) == val

SetFloat(kind, x) == FromUnsigned(x, Width(kind))

(***************************************************************************)
(* updateValueByTypeFromBytes, lines 25-143, one operator per group of     *)
(* cases of its switch.                                                    *)
(***************************************************************************)
\* int64(int8(b)), int64(int16(val)), int64(int32(val)), int64(val)
signedOfViaInt16(kind, val) == FromSigned(FromUnsigned(val, 2), 8)

signedOf(kind, val) == FromSigned(FromUnsigned(val, Width(kind)), 8)

\* uint64(b), uint64(int16(val)) for Uint16 and for Uint32, and val for Uint64
unsignedOf(kind, val) ==
    CASE kind = "Uint8" -> FromUnsigned(val, 8)
      [] kind \in {"Uint16", "Uint32"} -> FromSigned(FromUnsigned(val, 2), 8)
      [] kind = "Uint64" -> val

\* case reflect.Int8, Int16, Int32, Int64 (lines 27-41)
caseInt(value, Type, bytes, endian) ==
    LET w == Width(Type.kind)
    IN  IF Type.kind = "Int8"
        THEN IF ~IndexOk(bytes, 0)
             THEN Panicked(value, "index out of range", <<>>, 0)
             ELSE IF ~CanSet(value)
             THEN Panicked(value, "reflect: value is not settable", <<>>, 1)
             ELSE Stored(value, SetInt(Type.kind, signedOf(Type.kind, <<bytes.arr[1]>>)), 1)
        ELSE IF ~SliceOk(bytes, 0, w)
             THEN Panicked(value, "slice bounds out of range", <<>>, 0)
             ELSE IF ~CanSet(value)
             THEN Panicked(value, "reflect: value is not settable", <<>>, w)
             ELSE LET val == EndianUint(endian, Slice(bytes, 0, w), w)
                  IN  Stored(value, SetInt(Type.kind, signedOf(Type.kind, val)), w)

\* case reflect.Uint8, Uint16, Uint32, Uint64 (lines 42-55): the 16 and the 32 bit
\* case both convert through int16
caseUint(value, Type, bytes, endian) ==
    LET w == Width(Type.kind)
    IN  IF Type.kind = "Uint8"
        THEN IF ~IndexOk(bytes, 0)
             THEN Panicked(value, "index out of range", <<>>, 0)
             ELSE IF ~CanSet(value)
             THEN Panicked(value, "reflect: value is not settable", <<>>, 1)
             ELSE Stored(value, SetUint(Type.kind, unsignedOf(Type.kind, <<bytes.arr[1]>>)), 1)
        ELSE IF ~SliceOk(bytes, 0, w)
             THEN Panicked(value, "slice bounds out of range", <<>>, 0)
             ELSE IF ~CanSet(value)
             THEN Panicked(value, "reflect: value is not settable", <<>>, w)
             ELSE LET val == EndianUint(endian, Slice(bytes, 0, w), w)
                  IN  Stored(value, SetUint(Type.kind, unsignedOf(Type.kind, val)), w)

\* case reflect.Float32, Float64 (lines 56-65)
caseFloat(value, Type, bytes, endian) ==
    LET w == Width(Type.kind)
    IN  IF ~SliceOk(bytes, 0, w)
        THEN Panicked(value, "slice bounds out of range", <<>>, 0)
        ELSE IF ~CanSet(value)
        THEN Panicked(value, "reflect: value is not settable", <<>>, w)
        ELSE LET val == EndianUint(endian, Slice(bytes, 0, w), w)
             IN  Stored(value, SetFloat(Type.kind, Floatfrombits(val)), w)

RECURSIVE updateValueByTypeFromBytes(_, _, _, _)
RECURSIVE structFields(_, _, _, _, _, _)
RECURSIVE arrayItems(_, _, _, _, _, _)

\* the bytes_ignore tag of lines 75-81: set, parsed without error, and true
needIgnoreFieldOnlyTrue(fieldType) == fieldType.bytes_ignore = <<"t", "r", "u", "e">>

needIgnoreField(fieldType) ==
    /\ fieldType.bytes_ignore # <<>>
    /\ ParseBool(fieldType.bytes_ignore).ok
    /\ ParseBool(fieldType.bytes_ignore).val

\* offset += typeSize(fieldType.Type) (line 72)
offsetAfterHidden(offset, fieldType) == offset + typeSize(fieldType.type)

\* offset += o (line 100)
offsetAfterCodec(offset, o) == offset + o

\* offset += int(length) (line 110)
offsetAfterText(offset, length) == offset + length

\* offset += newOffset (lines 117, 128, 138)
offsetAfterFieldOverwrites(offset, newOffset) == newOffset

offsetAfterField(offset, newOffset) == offset + newOffset

(* The loop of case reflect.Struct (lines 68-119) from field i on (i counted
   from 1); acc is the call's result so far: the struct as written, the
   offset, the trace and the bytes read. *)
structFields(value, Type, bytes, endian, i, acc) ==
    IF i > Len(Type.fields) THEN acc
    ELSE IF ~value.valid
    THEN Panicked(value, "reflect: call of Field on zero Value", acc.trace, acc.readTo)
    ELSE
    LET fieldType == Type.fields[i]
        cur == [value EXCEPT !.v = acc.value]
        fieldValue == FieldOf(cur, Type, i)
        offset == acc.offset
        \* the field is done: offset becomes newOffset, and the loop goes on
        continue(v, newOffset, events, readTo) ==
            structFields(value, Type, bytes, endian, i + 1,
                Result(v, newOffset, NoErr, NoPanic,
                       acc.trace \o events
                           \o <<AdvEv(fieldValue.path, offset, newOffset, bytes.len)>>,
                       Max(acc.readTo, readTo)))
        \* return 0, err
        return(v, err, events, readTo) ==
            Result(v, 0, err, NoPanic, acc.trace \o events, Max(acc.readTo, readTo))
        panics(v, p, events, readTo) ==
            Result(v, 0, NoErr, p, acc.trace \o events, Max(acc.readTo, readTo))
        with(x) == [acc.value EXCEPT ![i] = x]
    IN  IF ~CanInterface(fieldValue)
        THEN continue(acc.value, offsetAfterHidden(offset, fieldType), <<>>, 0)
        ELSE IF needIgnoreField(fieldType)
        THEN continue(acc.value, offset, <<>>, 0)
        ELSE IF fieldType.bytes_fn # <<>>
        THEN LET funcs == Split(fieldType.bytes_fn, ",")
             IN  IF Len(funcs) < 2
                 THEN return(acc.value, "BytesFnNeedsTwoNames",
                             <<ErrEv(fieldValue.path, "BytesFnNeedsTwoNames")>>, 0)
                 ELSE IF ~cur.addr
                 THEN panics(acc.value, "reflect.Value.Addr of unaddressable value", <<>>, 0)
                 ELSE IF ~HasMethod(funcs[2])
                 THEN return(acc.value, "CodecNotFound",
                             <<ErrEv(fieldValue.path, "CodecNotFound")>>, 0)
                 ELSE IF ~SliceFromOk(bytes, offset)
                 THEN panics(acc.value, "slice bounds out of range", <<>>, 0)
                 ELSE LET methodType == MethodByName(funcs[2])
                          r == decodeValueViaFunc(Type.kind, fieldValue, methodType,
                                                  methodType, SliceFrom(bytes, offset))
                      IN  IF r.panic # NoPanic
                          THEN panics(acc.value, r.panic, r.trace, 0)
                          ELSE IF failed(r.err)
                          THEN return(acc.value, r.err, r.trace, 0)
                          ELSE continue(acc.value, offsetAfterCodec(offset, r.offset),
                                        r.trace, 0)
        ELSE IF fieldType.type.kind = "String"
        THEN LET parsed == ParseInt(fieldType.bytes_length)
                 length == parsed.val
             IN  IF ~parsed.ok
                 THEN return(acc.value, "MissingLengthTag",
                             <<ErrEv(fieldValue.path, "MissingLengthTag")>>, 0)
                 ELSE IF ~SliceOk(bytes, offset, offset + length)
                 THEN panics(acc.value, "slice bounds out of range", <<>>, 0)
                 ELSE IF ~CanSet(fieldValue)
                 THEN panics(acc.value, "reflect: value is not settable", <<>>,
                             offset + length)
                 ELSE LET str == bytesToStr(SubSeq(bytes.arr, offset + 1, offset + length))
                      IN  continue(with(str), offsetAfterText(offset, length),
                                   <<SetEv(fieldValue.path, str)>>, offset + length)
        ELSE IF ~SliceFromOk(bytes, offset)
        THEN panics(acc.value, "slice bounds out of range", <<>>, 0)
        ELSE LET r == updateValueByTypeFromBytes(fieldValue, fieldType.type,
                                                 SliceFrom(bytes, offset), endian)
                 readTo == IF r.readTo = 0 THEN 0 ELSE offset + r.readTo
             IN  IF r.panic # NoPanic
                 THEN panics(with(r.value), r.panic, r.trace, readTo)
                 ELSE IF failed(r.err)
                 THEN return(with(r.value), r.err, r.trace, readTo)
                 ELSE continue(with(r.value), offsetAfterField(offset, r.offset),
                               r.trace, readTo)

(* The loop of case reflect.Array, reflect.Slice (lines 123-129) from element i
   on (i counted from 1). *)
arrayItems(value, Type, bytes, endian, i, acc) ==
    IF i > Type.len THEN acc
    ELSE
    LET cur == [value EXCEPT !.v = acc.value]
        item == IndexOf(cur, Type, i)
        offset == acc.offset
        with(x) == [acc.value EXCEPT ![i] = x]
    IN  IF ~SliceFromOk(bytes, offset)
        THEN Result(acc.value, 0, NoErr, "slice bounds out of range", acc.trace, acc.readTo)
        ELSE LET r == updateValueByTypeFromBytes(item, Type.elem[1],
                                                 SliceFrom(bytes, offset), endian)
                 readTo == Max(acc.readTo, IF r.readTo = 0 THEN 0 ELSE offset + r.readTo)
                 newOffset == offsetAfterField(offset, r.offset)
             IN  IF r.panic # NoPanic \/ failed(r.err)
                 THEN Result(with(r.value), 0, r.err, r.panic, acc.trace \o r.trace, readTo)
                 ELSE arrayItems(value, Type, bytes, endian, i + 1,
                          Result(with(r.value), newOffset, NoErr, NoPanic,
                                 acc.trace \o r.trace
                                     \o <<AdvEv(item.path, offset, newOffset, bytes.len)>>,
                                 readTo))

\* case reflect.Interface (lines 130-138); offset is 0 when bytes[offset:] is taken
caseInterface(value, Type, bytes, endian) ==
    IF ~value.valid
    THEN Panicked(value, "reflect: call of Elem on zero Value", <<>>, 0)
    ELSE LET interfaceValue == ElemOf(value, Type)
         IN  IF ~interfaceValue.valid
             THEN Panicked(value, "reflect: call of Type on zero Value", <<>>, 0)
             ELSE LET r == updateValueByTypeFromBytes(interfaceValue, Type.dyn[1],
                                                      SliceFrom(bytes, 0), endian)
                      newOffset == offsetAfterField(0, r.offset)
                  IN  IF r.panic # NoPanic \/ failed(r.err)
                      THEN r
                      ELSE Result(r.value, newOffset, NoErr, NoPanic,
                                  r.trace \o <<ElemEv(value.path, 0, newOffset, bytes.len)>>,
                                  r.readTo)

updateValueByTypeFromBytes(value, Type, bytes, endian) ==
    CASE Type.kind \in IntKinds -> caseInt(value, Type, bytes, endian)
      [] Type.kind \in UintKinds -> caseUint(value, Type, bytes, endian)
      [] Type.kind \in FloatKinds -> caseFloat(value, Type, bytes, endian)
      [] Type.kind = "Struct" ->
            structFields(value, Type, bytes, endian, 1,
                         Result(value.v, 0, NoErr, NoPanic, <<>>, 0))
      [] Type.kind \in {"Array", "Slice"} ->
            IF ~value.valid
            THEN Panicked(value, "reflect: call of Len on zero Value", <<>>, 0)
            ELSE arrayItems(value, Type, bytes, endian, 1,
                            Result(value.v, 0, NoErr, NoPanic, <<>>, 0))
      [] Type.kind = "Interface" -> caseInterface(value, Type, bytes, endian)
      [] OTHER -> Failed(value, "UnsupportedType", <<>>, 0)

(***************************************************************************)
(* ConvertBytesToData, lines 14-23.  dataArg is the interface{} argument:  *)
(* kind "nil" is the nil interface (reflect.TypeOf returns nil), "value" a *)
(* value that is no pointer, "ptr" a pointer to a value of dataArg.type    *)
(* holding dataArg.v, "nilptr" a nil pointer of that pointer type.         *)
(***************************************************************************)
ConvertBytesToData(bytes, endian, dataArg) ==
    IF dataArg.kind = "nil"
    THEN Result(dataArg.v, 0, NoErr, "nil pointer dereference", <<>>, 0)
    ELSE IF dataArg.kind # "ptr" /\ dataArg.kind # "nilptr"
    THEN Result(dataArg.v, 0, "InvalidArgument", NoPanic,
                <<ErrEv(<<>>, "InvalidArgument")>>, 0)
    ELSE LET dataType == dataArg.type
             \* Elem() of a nil pointer is the zero Value: nothing can be stored
             \* through it, and dataArg.v stays what it was
             dataValue == IF dataArg.kind = "nilptr" THEN [ZeroValue EXCEPT !.v = dataArg.v]
                          ELSE Value(dataArg.v, TRUE, <<>>)
         IN  updateValueByTypeFromBytes(dataValue, dataType, bytes, endian)

(***************************************************************************)
(* The state machine: a caller holds a buffer, a byte order and a          *)
(* destination, and calls ConvertBytesToData once.                         *)
(***************************************************************************)
NoRet == [err |-> NoErr, panic |-> NoPanic, offset |-> 0, trace |-> <<>>, readTo |-> 0]

CallConvertBytesToData ==
    /\ pc = "call"
    /\ LET out == ConvertBytesToData(inBytes, inEndian, inData)
       IN  /\ inData' = [inData EXCEPT !.v = out.value]
           /\ ret' = [err |-> out.err, panic |-> out.panic, offset |-> out.offset,
                      trace |-> out.trace, readTo |-> out.readTo]
           /\ pc' = IF out.panic # NoPanic THEN "panicked" ELSE "returned"
    /\ UNCHANGED <<inBytes, inEndian>>

Next == CallConvertBytesToData

(***************************************************************************)
(* Inputs.                                                                 *)
(***************************************************************************)
MaxLen == 3

MaxSlack == 1

MaxItems == 2

Endians == {"LittleEndian", "BigEndian"}

\* what the destination holds before the call: every byte 170, text "\xAA"
RECURSIVE Prev(_)
Prev(Type) ==
    CASE Type.kind \in ScalarKinds -> [i \in 1..Width(Type.kind) |-> 170]
      [] Type.kind = "String" -> <<170>>
      [] Type.kind = "Struct" -> [i \in 1..Len(Type.fields) |-> Prev(Type.fields[i].type)]
      [] Type.kind \in {"Array", "Slice"} -> [i \in 1..Type.len |-> Prev(Type.elem[1])]
      [] Type.kind = "Interface" -> IF Type.dyn = <<>> THEN <<>> ELSE Prev(Type.dyn[1])
      [] OTHER -> <<>>

Data(kind, Type) == [kind |-> kind, type |-> Type, v |-> Prev(Type)]

\* the contents of the backing arrays: each pattern repeated up to the capacity
Patterns == { <<5>>, <<65, 66, 0, 0>>, <<255, 1>>, <<1, 0>>, <<0, 128, 7>> }

Buffer(p, len, cap) ==
    [arr |-> [i \in 1..cap |-> p[((i - 1) % Len(p)) + 1]], len |-> len]

Buffers ==
    { Buffer(p, l, l + s) : p \in Patterns, l \in 0..MaxLen, s \in 0..MaxSlack }

Plain(name, kind) == StructField(name, TRUE, <<>>, <<>>, <<>>, Ty(kind))

Hidden(name, kind) == StructField(name, FALSE, <<>>, <<>>, <<>>, Ty(kind))

Ignored(name, tag, kind) == StructField(name, TRUE, tag, <<>>, <<>>, Ty(kind))

Text(name, length) == StructField(name, TRUE, <<>>, <<>>, length, Ty("String"))

Coded(name, fn, kind) == StructField(name, TRUE, <<>>, fn, <<>>, Ty(kind))

Nested(name, Type) == StructField(name, TRUE, <<>>, <<>>, <<>>, Type)

InnerTypes ==
    { StructOf(<<>>),
      StructOf(<<Plain("X", "Int8"), Coded("Y", <<"e", ",", "E">>, "Int8")>>),
      StructOf(<<Ignored("X", <<"1">>, "Int16"), Plain("Y", "Int8")>>),
      StructOf(<<Text("X", <<"1">>), Text("Y", <<>>)>>),
      ArrayOf(Ty("Int8"), 2),
      SliceOf(Ty("Int8"), 1),
      InterfaceOf(<<>>),
      InterfaceOf(<<Ty("Int8")>>),
      InterfaceOf(<<SliceOf(Ty("Int8"), 1)>>),
      InterfaceOf(<<Ty("Ptr")>>),
      Ty("Bool") }

FnTags ==
    { <<"e", ",", m>> : m \in {"D", "Z", "N", "L", "E", "V", "A", "S", "O", "I", "R", "M"} }
        \cup { <<"e">>, <<"e", ",">>, <<"e", ",", "D", ",", "x">> }

LengthTags ==
    { <<>>, <<"2">>, <<"0">>, <<"-", "1">>, <<"+", "1">>, <<"1", "0">>, <<"2", "x">>, <<"-">> }

IgnoreTags == { <<"t","r","u","e">>, <<"1">>, <<"f","a","l","s","e">>, <<"y","e","s">> }

Probes ==
    { Plain("P", k) : k \in {"Int8", "Int16", "Uint16", "Float32"} }
        \cup { Hidden("p", k) : k \in {"Int8", "Int16"} }
        \cup { StructField("p", FALSE, <<"t","r","u","e">>, <<>>, <<>>, Ty("Int8")) }
        \cup { Ignored("P", t, "Int8") : t \in IgnoreTags }
        \cup { StructField("P", TRUE, <<"t","r","u","e">>, <<>>, <<>>, Ty("String")) }
        \cup { Text("P", t) : t \in LengthTags }
        \cup { Coded("P", f, "Int8") : f \in FnTags }
        \cup { StructField("P", TRUE, <<>>, <<"e", ",", "D">>, <<"2">>, Ty("String")) }
        \cup { Nested("P", T) : T \in InnerTypes }

Prefixes == { <<>>, <<Plain("A", "Int8")>>, <<Hidden("a", "Int16")>> }

Suffixes == { <<>>, <<Plain("B", "Int8")>>, <<Text("S", <<"2">>)>> }

StructTypes ==
    { StructOf(a \o <<f>> \o b) : a \in Prefixes, f \in Probes, b \in Suffixes }

ItemTypes ==
    { Ty("Int8"), Ty("Int16"), Ty("Bool"), Ty("String"),
      StructOf(<<Plain("X", "Int8"), Coded("Y", <<"e", ",", "E">>, "Int8")>>),
      StructOf(<<Plain("X", "Int8"), Coded("Y", <<"e", ",", "N">>, "Int8")>>) }

Types ==
    { Ty(k) : k \in ScalarKinds \cup {"String", "Bool"} }
        \cup InnerTypes
        \cup StructTypes
        \cup { ArrayOf(T, n) : T \in ItemTypes, n \in 0..MaxItems }
        \cup { SliceOf(T, n) : T \in ItemTypes, n \in 0..MaxItems }

Init ==
    /\ inBytes \in Buffers
    /\ inEndian \in Endians
    /\ inData \in { Data(k, T) : k \in {"ptr", "nilptr"}, T \in Types }
                    \cup { Data("value", T) : T \in { X \in Types : X.kind # "Interface" } }
                    \cup { Data("nil", Ty("Invalid")) }
    /\ pc = "call"
    /\ ret = NoRet

Spec == Init /\ [][Next]_vars

(***************************************************************************)
(* Scalar destinations with a buffer of exactly the scalar's width, over   *)
(* every combination of the bytes below.                                   *)
(***************************************************************************)
ScalarBytes == {0, 1, 128, 255}

InitScalar ==
    /\ \E k \in ScalarKinds :
          /\ inData = Data("ptr", Ty(k))
          /\ inBytes \in { [arr |-> a, len |-> Width(k)] : a \in [1..Width(k) -> ScalarBytes] }
    /\ inEndian \in Endians
    /\ pc = "call"
    /\ ret = NoRet

SpecScalar == InitScalar /\ [][Next]_vars

(***************************************************************************)
(* Properties.                                                             *)
(***************************************************************************)
RECURSIVE Unsigned(_)
\* the number a word of at most three bytes encodes
Unsigned(w) == IF w = <<>> THEN 0 ELSE Head(w) + 256 * Unsigned(Tail(w))

\* the two's-complement number a word of at most four bytes encodes
TwosComplement(w) ==
    LET n == Len(w)
        top == IF w[n] >= 128 THEN w[n] - 256 ELSE w[n]
    IN  Unsigned(SubSeq(w, 1, n - 1)) + top * 256 ^ (n - 1)

\* the first n bytes of the buffer, least significant first in the call's byte order
BySignificance(n) ==
    [i \in 1..n |-> IF inEndian = "LittleEndian" THEN inBytes.arr[i]
                    ELSE inBytes.arr[n + 1 - i]]

Returned == pc = "returned"

Succeeded == pc = "returned" /\ ret.err = NoErr

DestKind == inData.type.kind

(* C1: for every signed integer kind and both byte orders, decoding a buffer of
   exactly the kind's width succeeds, stores the two's-complement value of
   those bytes read in the given order (bytes 01 00 as int16 are 1 in little
   endian and 256 in big endian) and reports the width as the bytes consumed. *)
C1_SignedDecode ==
    (pc # "call" /\ DestKind \in IntKinds) =>
        /\ Succeeded
        /\ ret.offset = Width(DestKind)
        /\ inData.v = BySignificance(Width(DestKind))
        /\ (DestKind = "Int16" /\ inBytes.arr = <<1, 0>>) =>
               TwosComplement(inData.v) = IF inEndian = "LittleEndian" THEN 1 ELSE 256
        /\ (DestKind = "Int32" /\ inBytes.arr = <<255, 255, 255, 255>>) =>
               TwosComplement(inData.v) = -1

C1_Witness ==
    /\ Succeeded
    /\ DestKind = "Int16"
    /\ inBytes.arr = <<1, 0>>
    /\ inEndian = "BigEndian"
    /\ TwosComplement(inData.v) = 256
    /\ ret.offset = 2

(* C2: for every unsigned integer kind, both byte orders and every byte content
   of the declared width, the stored value is the unsigned integer encoded by
   all of those bytes, zero-extended over the full declared width. *)
C2_UnsignedDecode ==
    (pc # "call" /\ DestKind \in UintKinds) =>
        /\ Succeeded
        /\ inData.v = BySignificance(Width(DestKind))

(***************************************************************************)
(* Reading the trace and the destination.                                  *)
(***************************************************************************)
Trace == ret.trace

EventsAt(op, path) == { k \in 1..Len(Trace) : Trace[k].op = op /\ Trace[k].path = path }

IsPrefix(p, q) == Len(p) <= Len(q) /\ SubSeq(q, 1, Len(p)) = p

\* the struct field a path leads to, as <<field>>; <<>> when it leads to no field
RECURSIVE FieldAt(_, _)
FieldAt(Type, path) ==
    IF Type.kind = "Interface"
    THEN IF Type.dyn = <<>> THEN <<>> ELSE FieldAt(Type.dyn[1], path)
    ELSE IF path = <<>> THEN <<>>
    ELSE IF Type.kind = "Struct"
    THEN IF Len(path) = 1 THEN <<Type.fields[Head(path)]>>
         ELSE FieldAt(Type.fields[Head(path)].type, Tail(path))
    ELSE IF Type.kind \in {"Array", "Slice"} THEN FieldAt(Type.elem[1], Tail(path))
    ELSE <<>>

\* the part of the destination a path leads to
RECURSIVE ValueAt(_, _)
ValueAt(v, path) == IF path = <<>> THEN v ELSE ValueAt(v[Head(path)], Tail(path))

\* the destination with the part a path leads to replaced
RECURSIVE Written(_, _, _)
Written(v, path, x) ==
    IF path = <<>> THEN x
    ELSE [v EXCEPT ![Head(path)] = Written(v[Head(path)], Tail(path), x)]

\* the destination after the writes of the first k events, in order
RECURSIVE AfterWrites(_, _)
AfterWrites(v, k) ==
    IF k = 0 THEN v
    ELSE LET before == AfterWrites(v, k - 1)
         IN  IF Trace[k].op = "set" THEN Written(before, Trace[k].path, Trace[k].val)
             ELSE before

IgnoreAnnotated(f) == f.bytes_ignore \in TrueTexts

ToPointer == inData.kind = "ptr"

\* field i of a destination struct is reached: the fields before it are done
Reached(i) ==
    /\ pc # "call" /\ ToPointer /\ DestKind = "Struct"
    /\ i \in 1..Len(inData.type.fields)
    /\ i > 1 => EventsAt("adv", <<i - 1>>) # {}

(* C3: whenever a descriptor requires more bytes than remain in the buffer (an
   int32 decoded from a 2-byte buffer), the call returns a BufferOverrun error
   value; it never reads past len(buffer) and never panics on the buffer. *)
C3_ShortBufferIsAnError ==
    pc # "call" =>
        /\ ret.panic \notin {"index out of range", "slice bounds out of range"}
        /\ ret.readTo <= inBytes.len
        /\ (ToPointer /\ DestKind \in ScalarKinds /\ Width(DestKind) > inBytes.len) =>
               (Returned /\ ret.err = "BufferOverrun")

(* C4: for every destination that is not a pointer, ConvertBytesToData returns
   the InvalidArgument error ("Data should be pointer") at once, reads no byte
   of the buffer and mutates nothing. *)
C4_NonPointerIsRejected ==
    (pc # "call" /\ inData.kind \notin {"ptr", "nilptr"}) =>
        /\ Returned
        /\ ret.err = "InvalidArgument"
        /\ ret.readTo = 0
        /\ \A k \in 1..Len(Trace) : Trace[k].op = "err"
        /\ inData.v = Prev(inData.type)

\* the part of C4 the code keeps: a destination of some type that is no pointer
C4_TypedNonPointerIsRejected ==
    (pc # "call" /\ inData.kind = "value") =>
        /\ Returned
        /\ ret.err = "InvalidArgument"
        /\ ret.readTo = 0
        /\ \A k \in 1..Len(Trace) : Trace[k].op = "err"
        /\ inData.v = Prev(inData.type)

\* what C5 says of the field an "adv" event k is about
IgnoredFieldUntouched(k) ==
    LET e == Trace[k]
    IN  /\ e.to = e.from
        /\ \A j \in 1..Len(Trace) :
               IsPrefix(e.path, Trace[j].path) => Trace[j].op \notin {"set", "call", "err"}
        /\ ValueAt(inData.v, e.path) = ValueAt(Prev(inData.type), e.path)
        /\ \A j \in 1..Len(Trace) :
               (j > k /\ Trace[j].op = "adv" /\ Len(Trace[j].path) = Len(e.path)
                  /\ \A m \in (k + 1)..(j - 1) :
                         ~(Trace[m].op = "adv" /\ Len(Trace[m].path) = Len(e.path)))
               => Trace[j].from = e.from

C5_Example ==
    (/\ pc # "call" /\ ToPointer
     /\ inData.type = StructOf(<<Ignored("P", <<"t","r","u","e">>, "Int8"), Plain("B", "Int8")>>)
     /\ inBytes = [arr |-> <<5>>, len |-> 1])
    => /\ Succeeded
       /\ inData.v = << <<170>>, <<5>> >>
       /\ ret.offset = 1

(* C5 as stated: a record field carrying a true ignore annotation consumes zero
   bytes and keeps its previous value, the cursor is unchanged across it and
   the next field is decoded at the same offset; {A: int8 (ignored), B: int8}
   decoded from [0x05] ends with B = 5, A unchanged and 1 byte consumed. *)
C5_IgnoredFieldConsumesNothing ==
    /\ C5_Example
    /\ (pc # "call" /\ ToPointer) =>
           \A k \in 1..Len(Trace) :
               (/\ Trace[k].op = "adv"
                /\ FieldAt(inData.type, Trace[k].path) # <<>>
                /\ IgnoreAnnotated(FieldAt(inData.type, Trace[k].path)[1]))
               => IgnoredFieldUntouched(k)

(* C5 amended: an accessible (exported) record field carrying a true ignore
   annotation consumes zero bytes and keeps its previous value, the cursor is
   unchanged across it and the next field is decoded at the same offset;
   {A: int8 (ignored), B: int8} decoded from [0x05] ends with B = 5, A
   unchanged and 1 byte consumed. *)
C5_AccessibleIgnoredFieldConsumesNothing ==
    /\ C5_Example
    /\ (pc # "call" /\ ToPointer) =>
           \A k \in 1..Len(Trace) :
               (/\ Trace[k].op = "adv"
                /\ FieldAt(inData.type, Trace[k].path) # <<>>
                /\ IgnoreAnnotated(FieldAt(inData.type, Trace[k].path)[1])
                /\ FieldAt(inData.type, Trace[k].path)[1].exported)
               => IgnoredFieldUntouched(k)

C5_Witness ==
    /\ Succeeded /\ ToPointer
    /\ inData.type = StructOf(<<Ignored("P", <<"t","r","u","e">>, "Int8"), Plain("B", "Int8")>>)
    /\ inBytes = [arr |-> <<5>>, len |-> 1]
    /\ inData.v = << <<170>>, <<5>> >>
    /\ ret.offset = 1

\* the "adv" events of the destination struct's own fields, in program order
IsFieldEvent(e) == e.op = "adv" /\ Len(e.path) = 1

FieldEvents == SelectSeq(Trace, IsFieldEvent)

\* the decode hook a bytes_fn tag names
HookOf(f) == Split(f.bytes_fn, ",")[2]

\* field i of the destination struct decoded on its own from offset from on
Alone(i, from) ==
    updateValueByTypeFromBytes(Value(Prev(inData.type.fields[i].type), TRUE, <<i>>),
                               inData.type.fields[i].type, SliceFrom(inBytes, from), inEndian)

\* the bytes field i consumes when it is neither inaccessible nor ignored
Consumed(i, from) ==
    LET f == inData.type.fields[i]
    IN  IF f.bytes_fn # <<>>
        THEN Call(MethodByName(HookOf(f)), SliceFrom(inBytes, from)).n
        ELSE IF f.type.kind = "String" THEN ParseInt(f.bytes_length).val
        ELSE Alone(i, from).offset

\* the value field i holds after it was decoded from offset from on
Decoded(i, from) ==
    LET f == inData.type.fields[i]
    IN  IF f.bytes_fn # <<>> THEN Prev(f.type)
        ELSE IF f.type.kind = "String"
        THEN bytesToStr(SubSeq(inBytes.arr, from + 1, from + ParseInt(f.bytes_length).val))
        ELSE Alone(i, from).value

(* C6: in a successful record decode the fields are processed in declaration
   order, each starting at the offset that is the sum of the contributions of
   the earlier fields: an inaccessible field contributes the static size of its
   type and receives no value, an ignore-annotated field contributes 0, every
   other field contributes the bytes it consumed; the bytes consumed reported
   for the record are the sum of all contributions. *)
C6_RecordLayout ==
    (Succeeded /\ ToPointer /\ DestKind = "Struct") =>
        LET fields == inData.type.fields
            n == Len(fields)
            ev == FieldEvents
        IN  /\ Len(ev) = n
            /\ \A i \in 1..n : ev[i].path = <<i>>
            /\ \A i \in 1..n : ev[i].from = IF i = 1 THEN 0 ELSE ev[i - 1].to
            /\ ret.offset = IF n = 0 THEN 0 ELSE ev[n].to
            /\ \A i \in 1..n :
                   LET contribution == ev[i].to - ev[i].from
                   IN  IF ~fields[i].exported
                       THEN /\ contribution = typeSize(fields[i].type)
                            /\ inData.v[i] = Prev(fields[i].type)
                       ELSE IF IgnoreAnnotated(fields[i])
                       THEN contribution = 0
                       ELSE /\ contribution = Consumed(i, ev[i].from)
                            /\ inData.v[i] = Decoded(i, ev[i].from)

C6_Witness ==
    /\ Succeeded /\ ToPointer
    /\ inData.type = StructOf(<<Hidden("a", "Int16"), Ignored("P", <<"1">>, "Int8"),
                                Plain("B", "Int8")>>)
    /\ inBytes = [arr |-> <<0, 128, 7>>, len |-> 3]
    /\ inData.v = << <<170, 170>>, <<170>>, <<7>> >>
    /\ ret.offset = 3

(* C7: a text field of a record is decoded only when its length annotation is
   a positive decimal integer N, and then exactly N bytes are consumed from the
   current offset; when the annotation is absent, unparsable, zero or negative
   the decode fails with the MissingLengthTag error and the cursor is not
   moved.  (A call that panics on a short buffer is left to C3.) *)
C7_TextNeedsPositiveLength ==
    \A i \in 1..Len(inData.type.fields) :
        (/\ Reached(i)
         /\ inData.type.fields[i].type.kind = "String"
         /\ inData.type.fields[i].exported
         /\ ~IgnoreAnnotated(inData.type.fields[i])
         /\ inData.type.fields[i].bytes_fn = <<>>)
        => LET length == ParseInt(inData.type.fields[i].bytes_length)
           IN  IF length.ok /\ length.val > 0
               THEN ret.panic = NoPanic =>
                        \E k \in EventsAt("adv", <<i>>) :
                            Trace[k].to = Trace[k].from + length.val
               ELSE /\ Returned
                    /\ ret.err = "MissingLengthTag"
                    /\ ret.offset = 0
                    /\ EventsAt("adv", <<i>>) = {}

(* C8: when the decode hook named by a field's custom-codec annotation is
   declared on the owning record with a value receiver, decoding fails with an
   InvalidCodecSignature error at resolution time and the codec method is never
   invoked. *)
C8_ValueReceiverIsRejected ==
    \A i \in 1..Len(inData.type.fields) :
        (/\ Reached(i)
         /\ inData.type.fields[i].exported
         /\ ~IgnoreAnnotated(inData.type.fields[i])
         /\ Len(Split(inData.type.fields[i].bytes_fn, ",")) >= 2
         /\ \E m \in Methods : m.name = HookOf(inData.type.fields[i]) /\ m.recv = "value")
        => /\ Returned
           /\ ret.err = "InvalidCodecSignature"
           /\ EventsAt("call", <<i>>) = {}

(* C9: the first error met at any nesting depth (record field, sequence
   element, dynamic value, custom codec) aborts the whole top-level decode with
   that same error: nothing after the failure point is written or passed to a
   codec, and everything written before it keeps the value written. *)
C9_FirstErrorAborts ==
    pc # "call" =>
        /\ \A k \in 1..Len(Trace) :
               Trace[k].op = "err" =>
                   /\ k = Len(Trace)
                   /\ Returned
                   /\ ret.err = Trace[k].val
        /\ ret.err # NoErr =>
               /\ Returned
               /\ ret.offset = 0
               /\ Trace # <<>>
               /\ Trace[Len(Trace)].op = "err"
        /\ inData.v = AfterWrites(Prev(inData.type), Len(Trace))

C9_Witness ==
    /\ Returned /\ ToPointer
    /\ inData.type =
           StructOf(<<Plain("A", "Int8"),
                      Nested("P", StructOf(<<Plain("X", "Int8"),
                                             Coded("Y", <<"e", ",", "E">>, "Int8")>>)),
                      Plain("B", "Int8")>>)
    /\ inBytes = [arr |-> <<65, 66, 0>>, len |-> 3]
    /\ ret.err = "CodecFailure"
    /\ inData.v = << <<65>>, << <<66>>, <<170>> >>, <<170>> >>
    /\ EventsAt("call", <<2, 2>>) # {}
    /\ EventsAt("set", <<3>>) = {}

(* C10: during one decode call the cursor never decreases: after processing any
   field or element, whatever its kind, the offset is greater than or equal to
   the offset before it and stays within 0..len(buffer). *)
C10_CursorMonotonic ==
    \A k \in 1..Len(Trace) :
        (/\ Trace[k].op \in {"adv", "elem"}
         /\ \A f \in {FieldAt(inData.type, Trace[k].path)} : f = <<>> \/ f[1].exported)
        =>  /\ 0 <= Trace[k].from
            /\ Trace[k].from <= Trace[k].to
            /\ Trace[k].to <= Trace[k].len

====
